---- MODULE Spec2Model ----
(***************************************************************************)
(* State-machine model of AuditChecklistDeepLinkV2Spider                   *)
(* (src/scrapy_audit_checklist_deeplink_v2.py): the constructor, the       *)
(* start_requests generator, every callback and errback, and the           *)
(* spider_closed aggregation pass.                                         *)
(*                                                                         *)
(* The host engine is modelled only as far as the source addresses it:     *)
(*   - a yielded Request waits in `pending` until the fetcher resolves it; *)
(*     a response (of any status) goes to the request's callback, a        *)
(*     failure to its errback, or is dropped when it has none;             *)
(*   - a Request with dont_filter=False passes the duplicate filter and    *)
(*     the allowed_domains check, one with dont_filter=True passes neither;*)
(*   - the spider_closed signal is sent once, when nothing is pending.     *)
(* Each callback runs to completion (single-threaded reactor), so each is  *)
(* one action, all the requests it yields included.                        *)
(***************************************************************************)
EXTENDS Integers, Sequences, FiniteSets, Bags, TLC

VARIABLES
    scenario,          \* the constructor arguments and the web site crawled
    phase,             \* "init", "error", "ready", "crawling", "closed"
    error,             \* exception raised by __init__ ("" when none)
    start_urls,        \* self.start_urls
    site_root,         \* self.site_root, kept parsed: [scheme, netloc]
    allowed_domains,   \* self.allowed_domains
    site_info,         \* self.site_info
    results,           \* self.results
    title_map,         \* self.title_map
    meta_map,          \* self.meta_map
    bodyhash_map,      \* self.bodyhash_map
    broken_links_map,  \* self.broken_links_map
    pending,           \* bag of requests accepted by the engine, unresolved
    dupefilter,        \* URLs recorded by the engine's duplicate filter
    yielded,           \* bag of every request the spider has yielded so far
    summary            \* the totals written to audit_checklist_summary.txt

vars == <<scenario, phase, error, start_urls, site_root, allowed_domains,
          site_info, results, title_map, meta_map, bodyhash_map,
          broken_links_map, pending, dupefilter, yielded, summary>>

session == <<site_info, results, title_map, meta_map, bodyhash_map,
             broken_links_map>>

config == <<scenario, error, start_urls, site_root, allowed_domains>>

(***************************************************************************)
(* Bounds of the model and constants of the program.                       *)
(***************************************************************************)
\* Cap on the number of PageRecords: parse is not delivered beyond it.
MaxPages == 4

\* Longest broken-link list drawn for the aggregation-only specification.
MaxBroken == 11

\* response.text[:2000]
TextWindow == 2000

\* broken_list[:10]
BrokenShown == 10

(***************************************************************************)
(* Text: a string is a sequence of one-character strings, so that strip()  *)
(* and truthiness are computed, not assumed.                               *)
(***************************************************************************)
IsSpace(c) == c \in {" ", "\t", "\n"}

RECURSIVE LStrip(_)
LStrip(s) == IF s # <<>> /\ IsSpace(Head(s)) THEN LStrip(Tail(s)) ELSE s

RECURSIVE RStrip(_)
RStrip(s) ==
    IF s # <<>> /\ IsSpace(s[Len(s)]) THEN RStrip(SubSeq(s, 1, Len(s) - 1)) ELSE s

\* str.strip()
Strip(s) == RStrip(LStrip(s))

\* Python's `a or b` on strings
OrElse(a, b) == IF a # <<>> THEN a ELSE b

NoTitle == <<"(", "n", "o", " ", "t", "i", "t", "l", "e", ")">>
NoMeta == <<"(", "n", "o", " ", "m", "e", "t", "a", ")">>

\* hashlib.sha1(...).hexdigest(): injective on the texts of the model, and
\* never equal to the text itself.
Sha1Hex(text) == <<"sha1:">> \o text

\* `marker in text[:2000]`: the marker (of the given length) occurs at
\* position `at` (0-based, -1 when absent) and lies inside the window.
InWindow(at, len) == at >= 0 /\ at + len <= TextWindow

(***************************************************************************)
(* URLs, kept parsed as urlparse would return them; `ext` is the suffix    *)
(* that endswith() inspects.                                               *)
(***************************************************************************)
Url(scheme, netloc, path, ext) ==
    [scheme |-> scheme, netloc |-> netloc, path |-> path, ext |-> ext]

\* Python None where a URL is expected
NoUrl == Url("", <<>>, "", "")

EndsWithXml(u) == u.ext = ".xml"

StartsWithHttps(u) == u.scheme = "https"

\* urljoin(base, href): an absolute href replaces the base, a root-relative
\* one keeps the base's scheme and host.
UrlJoin(base, href) ==
    IF href.abs THEN href.url
    ELSE Url(base.scheme, base.netloc, href.url.path, href.url.ext)

\* f"{parsed.scheme}://{parsed.netloc}"
RootOf(u) == [scheme |-> u.scheme, netloc |-> u.netloc]

RootUrl(scheme, netloc) == Url(scheme, netloc, "", "")

\* netloc.startswith("www.")
StartsWithWww(netloc) == Len(netloc) > 1 /\ Head(netloc) = "www"

\* netloc.replace("www.", ""): every label "www" followed by a dot goes.
RECURSIVE DropWww(_)
DropWww(netloc) ==
    IF Len(netloc) <= 1 THEN netloc
    ELSE IF Head(netloc) = "www" THEN DropWww(Tail(netloc))
    ELSE <<Head(netloc)>> \o DropWww(Tail(netloc))

AltNetloc(netloc) ==
    IF StartsWithWww(netloc) THEN DropWww(netloc) ELSE <<"www">> \o netloc

(***************************************************************************)
(* The fetcher's answers.  A response carries what the callbacks read:     *)
(* status, final url (after redirects), and of the body: the raw <title>   *)
(* text, the raw description, the visible body text, the anchor hrefs in   *)
(* document order, whether response.text is blank, the 0-based positions   *)
(* of the first "<urlset", "<html" and "404"/"not found" (lower-cased, -1  *)
(* when absent) and the <url><loc> entries.                                *)
(***************************************************************************)
Response(status, url, title, meta_desc, body_text, hrefs) ==
    [fail |-> FALSE, status |-> status, url |-> url, title |-> title,
     meta_desc |-> meta_desc, body_text |-> body_text, hrefs |-> hrefs,
     blank |-> FALSE, urlsetAt |-> -1, htmlAt |-> 0, notFoundAt |-> -1,
     locs |-> <<>>]

\* a network/protocol failure: no response at all
Failure ==
    [fail |-> TRUE, status |-> 0, url |-> NoUrl, title |-> <<>>,
     meta_desc |-> <<>>, body_text |-> <<>>, hrefs |-> <<>>,
     blank |-> TRUE, urlsetAt |-> -1, htmlAt |-> -1, notFoundAt |-> -1,
     locs |-> <<>>]

Rel(path) == [abs |-> FALSE, empty |-> FALSE, url |-> Url("", <<>>, path, "")]
Abs(u) == [abs |-> TRUE, empty |-> FALSE, url |-> u]
EmptyHref == [abs |-> FALSE, empty |-> TRUE, url |-> NoUrl]

Host == <<"ex", "com">>
P(path) == Url("https", Host, path, "")
Other == Url("https", <<"other", "org">>, "/", "")

Home == <<"H", "o", "m", "e">>
HomeRaw == <<" ", "H", "o", "m", "e", "\n">>
Blank == <<" ", "\n">>
TextC == <<"C">>
TextD == <<"d">>
TextX == <<"x">>
NotFoundText == <<"4", "0", "4">>

\* what the server answers for a URL it does not know
NotFound(u) ==
    [Response(404, u, NotFoundText, <<>>, NotFoundText, <<>>)
        EXCEPT !.notFoundAt = 0]

RobotsUrl(root) == Url(root.scheme, root.netloc, "/robots", ".txt")
SitemapXmlUrl(root) == Url(root.scheme, root.netloc, "/sitemap", ".xml")
SitemapIndexUrl(root) == Url(root.scheme, root.netloc, "/sitemap_index", ".xml")
SitemapHtmlUrl(root) == Url(root.scheme, root.netloc, "/sitemap", ".html")
\* "/.well-known/" + 14 random characters
RandPaths == {"/.well-known/k3x9q0a7m2c5zt"}
RandUrl(root, randpath) == Url(root.scheme, root.netloc, randpath, "")

SecureRoot == [scheme |-> "https", netloc |-> Host]

(***************************************************************************)
(* Web sites.  Each is a function from URL to the fetcher's answer; a URL  *)
(* outside its domain is answered 404.                                     *)
(***************************************************************************)
\* "/" links to /b and /c, /b links to /c: /c is reachable along two paths.
\* "/" and /b share title and body text; /c has neither description nor body.
DiamondSite ==
    (P("/") :> Response(200, P("/"), HomeRaw, TextD, TextX,
                        <<Rel("/b"), EmptyHref, Abs(Other), Rel("/c"), Abs(P("/c"))>>))
    @@ (P("/b") :> Response(200, P("/b"), Home, Blank, TextX, <<Rel("/c")>>))
    @@ (P("/c") :> Response(200, P("/c"), TextC, <<>>, <<>>, <<>>))
    @@ (RobotsUrl(SecureRoot) :> NotFound(RobotsUrl(SecureRoot)))
    @@ (SitemapXmlUrl(SecureRoot) :> Failure)
    @@ (SitemapIndexUrl(SecureRoot) :> Failure)
    @@ (SitemapHtmlUrl(SecureRoot) :> Failure)

\* a single page that links to itself
CycleSite ==
    (P("/") :> Response(200, P("/"), Home, TextD, TextX, <<Rel("/")>>))
    @@ (RobotsUrl(SecureRoot) :> Failure)
    @@ (SitemapXmlUrl(SecureRoot) :> Failure)
    @@ (SitemapIndexUrl(SecureRoot) :> Failure)
    @@ (SitemapHtmlUrl(SecureRoot) :> Failure)
    @@ (RootUrl("http", Host) :> Failure)
    @@ (RootUrl("https", <<"www">> \o Host) :> Failure)

\* "/" links to /e (the fetch fails), to /r (redirects to /gone, which
\* answers 404) and to /ok (answers 200, no links)
BrokenSite ==
    (P("/") :> Response(200, P("/"), Home, TextD, TextX,
                        <<Rel("/e"), Rel("/r"), Rel("/ok")>>))
    @@ (P("/e") :> Failure)
    @@ (P("/r") :> NotFound(P("/gone")))
    @@ (P("/ok") :> Response(200, P("/ok"), TextC, TextC, TextC, <<>>))
    @@ (RandUrl(SecureRoot, "/.well-known/k3x9q0a7m2c5zt") :> Failure)
    @@ (RobotsUrl(SecureRoot) :> Failure)
    @@ (SitemapXmlUrl(SecureRoot) :> Failure)
    @@ (SitemapIndexUrl(SecureRoot) :> Failure)
    @@ (SitemapHtmlUrl(SecureRoot) :> Failure)
    @@ (RootUrl("http", Host) :> Failure)
    @@ (RootUrl("https", <<"www">> \o Host) :> Failure)

\* /sitemap.xml is a urlset naming "/" twice, /b and a page of another host;
\* every probe gets an answer.
SitemapSite ==
    (SitemapXmlUrl(SecureRoot) :>
        [Response(200, SitemapXmlUrl(SecureRoot), <<>>, <<>>, <<>>, <<>>)
            EXCEPT !.urlsetAt = 40, !.htmlAt = -1,
                   !.locs = <<P("/"), P("/b"), P("/"), Other>>])
    @@ (P("/") :> Response(200, P("/"), Home, TextD, TextX, <<>>))
    @@ (P("/b") :> Response(200, P("/b"), TextC, TextD, TextC, <<>>))
    @@ (RobotsUrl(SecureRoot) :>
            Response(200, RobotsUrl(SecureRoot), <<>>, <<>>, <<>>, <<>>))
    @@ (SitemapIndexUrl(SecureRoot) :> NotFound(SitemapIndexUrl(SecureRoot)))
    @@ (SitemapHtmlUrl(SecureRoot) :>
            Response(200, SitemapHtmlUrl(SecureRoot), Home, <<>>, TextX, <<>>))
    @@ (RandUrl(SecureRoot, "/.well-known/k3x9q0a7m2c5zt") :>
            Response(200, RandUrl(SecureRoot, "/.well-known/k3x9q0a7m2c5zt"),
                     Home, <<>>, TextX, <<>>))
    @@ (RootUrl("http", Host) :>
            Response(200, RootUrl("https", Host), Home, <<>>, TextX, <<>>))
    @@ (RootUrl("https", <<"www">> \o Host) :>
            Response(200, RootUrl("https", <<"www">> \o Host), Home, <<>>, TextX, <<>>))

\* one page without links; robots.txt is blank, /sitemap.xml is an HTML page
\* answered 200, the random path shows a "not found" text with status 200,
\* the http root answers without redirecting, the alternate root answers 301
PlainSite ==
    (P("/") :> Response(200, P("/"), <<>>, <<>>, <<>>, <<>>))
    @@ (RobotsUrl(SecureRoot) :>
            [Response(200, RobotsUrl(SecureRoot), <<>>, <<>>, <<>>, <<>>)
                EXCEPT !.blank = TRUE, !.htmlAt = -1])
    @@ (SitemapXmlUrl(SecureRoot) :>
            Response(200, SitemapXmlUrl(SecureRoot), Home, <<>>, TextX, <<>>))
    @@ (SitemapIndexUrl(SecureRoot) :> Failure)
    @@ (SitemapHtmlUrl(SecureRoot) :>
            [Response(200, SitemapHtmlUrl(SecureRoot), Home, <<>>, TextX, <<>>)
                EXCEPT !.htmlAt = 1996])
    @@ (RandUrl(SecureRoot, "/.well-known/k3x9q0a7m2c5zt") :>
            [Response(200, RandUrl(SecureRoot, "/.well-known/k3x9q0a7m2c5zt"),
                      Home, <<>>, TextX, <<>>) EXCEPT !.notFoundAt = 100])
    @@ (RootUrl("http", Host) :>
            Response(200, RootUrl("http", Host), Home, <<>>, TextX, <<>>))
    @@ (RootUrl("https", <<"www">> \o Host) :>
            Response(301, RootUrl("https", <<"www">> \o Host), <<>>, <<>>, <<>>, <<>>))
    @@ (Url("http", <<"www">> \o Host, "/", "") :>
            Response(200, Url("http", <<"www">> \o Host, "/", ""),
                     Home, <<>>, <<>>, <<>>))

\* /feed serves a urlset naming "/" under a URL that does not end in .xml;
\* /sitemap.xml and /sitemap_index.xml both serve a urlset, every other
\* probe is answered 404
FeedSite ==
    (P("/feed") :>
        [Response(200, P("/feed"), <<>>, <<>>, <<>>, <<>>)
            EXCEPT !.urlsetAt = 40, !.htmlAt = -1, !.locs = <<P("/")>>])
    @@ (P("/") :> Response(200, P("/"), Home, TextD, TextX, <<>>))
    @@ (SitemapXmlUrl(SecureRoot) :>
        [Response(200, SitemapXmlUrl(SecureRoot), <<>>, <<>>, <<>>, <<>>)
            EXCEPT !.urlsetAt = 40, !.htmlAt = -1, !.locs = <<P("/")>>])
    @@ (SitemapIndexUrl(SecureRoot) :>
        [Response(200, SitemapIndexUrl(SecureRoot), <<>>, <<>>, <<>>, <<>>)
            EXCEPT !.urlsetAt = 40, !.htmlAt = -1, !.locs = <<P("/")>>])

\* "/" links to /c, which is also a seed; /c links to /x, whose fetch
\* fails; every probe fails
TwiceSite ==
    (P("/") :> Response(200, P("/"), Home, TextD, TextX, <<Rel("/c")>>))
    @@ (P("/c") :> Response(200, P("/c"), TextC, TextC, TextC, <<Rel("/x")>>))
    @@ (P("/x") :> Failure)
    @@ (RandUrl(SecureRoot, "/.well-known/k3x9q0a7m2c5zt") :> Failure)
    @@ (RobotsUrl(SecureRoot) :> Failure)
    @@ (SitemapXmlUrl(SecureRoot) :> Failure)
    @@ (SitemapIndexUrl(SecureRoot) :> Failure)
    @@ (SitemapHtmlUrl(SecureRoot) :> Failure)
    @@ (RootUrl("http", Host) :> Failure)
    @@ (RootUrl("https", <<"www">> \o Host) :> Failure)

(***************************************************************************)
(* Constructor arguments.  NoUrl stands for an argument left at None;      *)
(* urls_file is the file's lines, NoUrl being a blank line.                *)
(***************************************************************************)
NoFile == [given |-> FALSE, lines |-> <<>>]
File(lines) == [given |-> TRUE, lines |-> lines]

Args(start_url, sitemap, urls_file) ==
    [start_url |-> start_url, sitemap |-> sitemap, urls_file |-> urls_file]

ArgChoices ==
    {Args(s, m, f) :
        s \in {NoUrl, P("/")},
        m \in {NoUrl, SitemapXmlUrl(SecureRoot)},
        f \in {NoFile, File(<<>>), File(<<NoUrl>>), File(<<P("/"), NoUrl, P("/")>>)}}

\* The seed page links to Len(dead) further URLs; the i-th fails at network
\* level when dead[i] = "ERR" and is answered 404 otherwise.
DeadUrl(i) == P("/dead" \o ToString(i))

DeadLinksSite(dead) ==
    (P("/") :> Response(200, P("/"), Home, TextD, TextX,
                        [i \in 1..Len(dead) |-> Rel("/dead" \o ToString(i))]))
    @@ [u \in {DeadUrl(i) : i \in {j \in 1..Len(dead) : dead[j] = "ERR"}} |-> Failure]

Scenario(args, site) == [args |-> args, site |-> site, dead |-> <<>>]

\* the web site of a scenario
Pages(sc) ==
    CASE sc.site = "diamond" -> DiamondSite
      [] sc.site = "cycle" -> CycleSite
      [] sc.site = "broken" -> BrokenSite
      [] sc.site = "sitemap" -> SitemapSite
      [] sc.site = "plain" -> PlainSite
      [] sc.site = "feed" -> FeedSite
      [] sc.site = "twice" -> TwiceSite
      [] sc.site = "deadlinks" -> DeadLinksSite(sc.dead)

Scenarios ==
    {Scenario(a, "plain") : a \in ArgChoices}
    \cup {Scenario(Args(Url("http", <<"www">> \o Host, "/", ""), NoUrl, NoFile),
                   "plain")}
    \cup {Scenario(Args(P("/"), NoUrl, NoFile), s) :
            s \in {"diamond", "cycle", "broken"}}
    \cup {Scenario(Args(NoUrl, SitemapXmlUrl(SecureRoot), NoFile), "sitemap")}
    \cup {Scenario(Args(NoUrl, P("/feed"), NoFile), "feed")}
    \cup {Scenario(Args(NoUrl, NoUrl, File(<<P("/"), P("/c")>>)), "twice")}

\* the fetcher's answer for url u
Fetch(u) ==
    IF u \in DOMAIN Pages(scenario) THEN Pages(scenario)[u] ELSE NotFound(u)

(***************************************************************************)
(* Requests and the engine's intake.                                       *)
(***************************************************************************)
\* scrapy.Request(url, callback=, dont_filter=, errback=, meta={parent, link_target})
Request(url, callback, dont_filter, errback, parent, link_target) ==
    [url |-> url, callback |-> callback, dont_filter |-> dont_filter,
     errback |-> errback, parent |-> parent, link_target |-> link_target]

RECURSIVE IsSuffix(_, _)
IsSuffix(s, t) ==
    \/ s = t
    \/ t # <<>> /\ IsSuffix(s, Tail(t))

\* allowed_domains admits the host itself and its subdomains
OnSite(netloc, domains) ==
    \E i \in 1..Len(domains) : domains[i] # <<>> /\ IsSuffix(domains[i], netloc)

\* The engine takes a request with dont_filter=True as it is; any other must
\* be on an allowed domain and not yet recorded by the duplicate filter.
Accepted(req, domains, seen) ==
    \/ req.dont_filter
    \/ OnSite(req.url.netloc, domains) /\ req.url \notin seen

\* The requests of a generator handed to the engine in the order yielded:
\* st = [pending, dupefilter]
RECURSIVE EnqueueAll(_, _, _)
EnqueueAll(reqs, domains, st) ==
    IF reqs = <<>> THEN st
    ELSE LET req == Head(reqs)
             next ==
                 IF ~Accepted(req, domains, st.dupefilter) THEN st
                 ELSE [pending |-> st.pending (+) SetToBag({req}),
                       dupefilter |->
                           IF req.dont_filter THEN st.dupefilter
                           ELSE st.dupefilter \cup {req.url}]
         IN  EnqueueAll(Tail(reqs), domains, next)

RECURSIVE SeqToBag(_)
SeqToBag(reqs) ==
    IF reqs = <<>> THEN EmptyBag
    ELSE SetToBag({Head(reqs)}) (+) SeqToBag(Tail(reqs))

\* mutant: the handler hangs on a signal that does not wait for the engine
\* to run dry
AnySignal == TRUE

\* the engine has nothing scheduled or in flight
EngineIdle == pending = EmptyBag

Take(req) == pending (-) SetToBag({req})

(***************************************************************************)
(* __init__                                                                *)
(***************************************************************************)
\* [l.strip() for l in f if l.strip()]
RECURSIVE NonBlankLines(_)
NonBlankLines(lines) ==
    IF lines = <<>> THEN <<>>
    ELSE IF Head(lines) = NoUrl THEN NonBlankLines(Tail(lines))
    ELSE <<Head(lines)>> \o NonBlankLines(Tail(lines))

\* mutant: the chain asks for start_url before urls_file
SeedUrlsStartUrlFirst(args) ==
    IF args.start_url # NoUrl THEN [raised |-> "", urls |-> <<args.start_url>>]
    ELSE IF args.urls_file.given
    THEN [raised |-> "", urls |-> NonBlankLines(args.urls_file.lines)]
    ELSE IF args.sitemap # NoUrl THEN [raised |-> "", urls |-> <<args.sitemap>>]
    ELSE [raised |-> "ValueError", urls |-> <<>>]

\* the if/elif chain choosing start_urls; "ValueError" when it falls through
SeedUrls(args) ==
    IF args.urls_file.given THEN [raised |-> "", urls |-> NonBlankLines(args.urls_file.lines)]
    ELSE IF args.start_url # NoUrl THEN [raised |-> "", urls |-> <<args.start_url>>]
    ELSE IF args.sitemap # NoUrl THEN [raised |-> "", urls |-> <<args.sitemap>>]
    ELSE [raised |-> "ValueError", urls |-> <<>>]

EmptyDict == [k \in {} |-> <<>>]

SiteInfo0 ==
    [robots_exists |-> "None", html_sitemap_exists |-> "None",
     xml_sitemap_exists |-> "None", custom_404 |-> "None",
     http_https |-> "None", www_nonwww |-> "None"]

NoRoot == [scheme |-> "", netloc |-> <<>>]

\* nothing written yet
NoSummary ==
    [written |-> FALSE, pages |-> 0, broken_links |-> 0, missing_title |-> 0,
     duplicate_title |-> 0, duplicate_meta |-> 0, duplicate_content |-> 0]

Init ==
    /\ scenario \in Scenarios
    /\ phase = "init"
    /\ error = ""
    /\ start_urls = <<>>
    /\ site_root = NoRoot
    /\ allowed_domains = <<>>
    /\ site_info = SiteInfo0
    /\ results = <<>>
    /\ title_map = EmptyDict
    /\ meta_map = EmptyDict
    /\ bodyhash_map = EmptyDict
    /\ broken_links_map = EmptyDict
    /\ pending = EmptyBag
    /\ dupefilter = {}
    /\ yielded = EmptyBag
    /\ summary = NoSummary

Construct ==
    /\ phase = "init"
    /\ LET seed == SeedUrls(scenario.args) IN
        IF seed.raised # ""
        THEN /\ phase' = "error"
             /\ error' = seed.raised
             /\ UNCHANGED <<start_urls, site_root, allowed_domains>>
        ELSE IF seed.urls = <<>>
        THEN \* self.start_urls[0] on an empty list
             /\ phase' = "error"
             /\ error' = "IndexError"
             /\ start_urls' = seed.urls
             /\ UNCHANGED <<site_root, allowed_domains>>
        ELSE /\ phase' = "ready"
             /\ error' = ""
             /\ start_urls' = seed.urls
             /\ site_root' = RootOf(seed.urls[1])
             /\ allowed_domains' = <<seed.urls[1].netloc>>
    /\ UNCHANGED <<scenario, session, pending, dupefilter, yielded, summary>>

(***************************************************************************)
(* start_requests                                                          *)
(***************************************************************************)
ProbeCallbacks ==
    {"_parse_robots", "_parse_sitemap_probe", "_parse_404_probe",
     "_parse_http_probe", "_parse_www_probe"}

ProbeRequest(url, callback, errback) ==
    Request(url, callback, TRUE, errback, NoUrl, NoUrl)

RECURSIVE SeedRequests(_)
SeedRequests(urls) ==
    IF urls = <<>> THEN <<>>
    ELSE <<Request(Head(urls), "parse", FALSE, "", NoUrl, NoUrl)>>
         \o SeedRequests(Tail(urls))

\* the requests start_requests yields, in order
StartRequestsOf(root, urls, randpath) ==
    <<ProbeRequest(RobotsUrl(root), "_parse_robots", ""),
      ProbeRequest(SitemapXmlUrl(root), "_parse_sitemap_probe", ""),
      ProbeRequest(SitemapIndexUrl(root), "_parse_sitemap_probe", ""),
      ProbeRequest(SitemapHtmlUrl(root), "_parse_sitemap_probe", ""),
      ProbeRequest(RandUrl(root, randpath), "_parse_404_probe", "_errback_probe")>>
    \o (IF root.scheme = "https"
        THEN <<ProbeRequest(RootUrl("http", root.netloc), "_parse_http_probe",
                            "_errback_probe")>>
        ELSE <<>>)
    \o <<ProbeRequest(RootUrl(root.scheme, AltNetloc(root.netloc)),
                      "_parse_www_probe", "_errback_probe")>>
    \o SeedRequests(urls)

StartRequests ==
    /\ phase = "ready"
    /\ \E randpath \in RandPaths :
        LET reqs == StartRequestsOf(site_root, start_urls, randpath)
            st == EnqueueAll(reqs, allowed_domains,
                             [pending |-> pending, dupefilter |-> dupefilter])
        IN  /\ pending' = st.pending
            /\ dupefilter' = st.dupefilter
            /\ yielded' = yielded (+) SeqToBag(reqs)
    /\ phase' = "crawling"
    /\ UNCHANGED <<config, session, summary>>

(***************************************************************************)
(* Probe handlers.  SiteInfo values are "None", "True", "False" and, for   *)
(* custom_404, "present_but_200".                                          *)
(***************************************************************************)
Bool(b) == IF b THEN "True" ELSE "False"

\* Python truthiness of a SiteInfo value
Truthy(v) == v \in {"True", "present_but_200"}

Resolving(req, callback) ==
    /\ phase = "crawling"
    /\ BagIn(req, pending)
    /\ req.callback = callback
    /\ ~Fetch(req.url).fail

RobotsExists(response) == response.status = 200 /\ ~response.blank

ParseRobots(req) ==
    /\ Resolving(req, "_parse_robots")
    /\ site_info' = [site_info EXCEPT !.robots_exists = Bool(RobotsExists(Fetch(req.url)))]
    /\ pending' = Take(req)
    /\ UNCHANGED <<config, phase, summary, results, title_map, meta_map, bodyhash_map,
                   broken_links_map, dupefilter, yielded>>

\* the site_info keys _parse_sitemap_probe assigns for a response
SitemapProbeWrites(response) ==
    IF response.status = 200
       /\ (EndsWithXml(response.url) \/ InWindow(response.urlsetAt, 7))
    THEN {"xml_sitemap_exists"}
    ELSE IF response.status = 200 /\ InWindow(response.htmlAt, 5)
    THEN {"html_sitemap_exists"}
    ELSE {}

\* mutant: a candidate that is not a sitemap records a negative answer
SitemapProbeInfoElseFalse(info, response) ==
    IF response.status = 200
       /\ (EndsWithXml(response.url) \/ InWindow(response.urlsetAt, 7))
    THEN [info EXCEPT !.xml_sitemap_exists = "True"]
    ELSE IF response.status = 200 /\ InWindow(response.htmlAt, 5)
    THEN [info EXCEPT !.html_sitemap_exists = "True"]
    ELSE [info EXCEPT !.xml_sitemap_exists = "False"]

SitemapProbeInfo(info, response) ==
    IF response.status = 200
       /\ (EndsWithXml(response.url) \/ InWindow(response.urlsetAt, 7))
    THEN [info EXCEPT !.xml_sitemap_exists = "True"]
    ELSE IF response.status = 200 /\ InWindow(response.htmlAt, 5)
    THEN [info EXCEPT !.html_sitemap_exists = "True"]
    ELSE info

ParseSitemapProbe(req) ==
    /\ Resolving(req, "_parse_sitemap_probe")
    /\ site_info' = SitemapProbeInfo(site_info, Fetch(req.url))
    /\ pending' = Take(req)
    /\ UNCHANGED <<config, phase, summary, results, title_map, meta_map, bodyhash_map,
                   broken_links_map, dupefilter, yielded>>

Custom404(response) ==
    IF response.status = 404 THEN "True"
    ELSE IF InWindow(response.notFoundAt, 3) THEN "present_but_200"
    ELSE "False"

Parse404Probe(req) ==
    /\ Resolving(req, "_parse_404_probe")
    /\ site_info' = [site_info EXCEPT !.custom_404 = Custom404(Fetch(req.url))]
    /\ pending' = Take(req)
    /\ UNCHANGED <<config, phase, summary, results, title_map, meta_map, bodyhash_map,
                   broken_links_map, dupefilter, yielded>>

ParseHttpProbe(req) ==
    /\ Resolving(req, "_parse_http_probe")
    /\ site_info' = [site_info EXCEPT
                        !.http_https = Bool(StartsWithHttps(Fetch(req.url).url))]
    /\ pending' = Take(req)
    /\ UNCHANGED <<config, phase, summary, results, title_map, meta_map, bodyhash_map,
                   broken_links_map, dupefilter, yielded>>

ParseWwwProbe(req) ==
    /\ Resolving(req, "_parse_www_probe")
    /\ site_info' = [site_info EXCEPT
                        !.www_nonwww = Bool(Fetch(req.url).status = 200)]
    /\ pending' = Take(req)
    /\ UNCHANGED <<config, phase, summary, results, title_map, meta_map, bodyhash_map,
                   broken_links_map, dupefilter, yielded>>

Failing(req, errback) ==
    /\ phase = "crawling"
    /\ BagIn(req, pending)
    /\ req.errback = errback
    /\ Fetch(req.url).fail

\* mutant: the errback records the failure as a negative answer
ErrbackProbeMarksFalse(info, req) ==
    IF req.callback = "_parse_404_probe" THEN [info EXCEPT !.custom_404 = "False"]
    ELSE IF req.callback = "_parse_http_probe" THEN [info EXCEPT !.http_https = "False"]
    ELSE [info EXCEPT !.www_nonwww = "False"]

\* _errback_probe: return
ErrbackProbeInfo(info, req) == info

ErrbackProbe(req) ==
    /\ Failing(req, "_errback_probe")
    /\ site_info' = ErrbackProbeInfo(site_info, req)
    /\ pending' = Take(req)
    /\ UNCHANGED <<config, phase, summary, results, title_map, meta_map, bodyhash_map,
                   broken_links_map, dupefilter, yielded>>

\* a failed request that names no errback: the engine logs it, no spider
\* code runs
FailureDropped(req) ==
    /\ Failing(req, "")
    /\ pending' = Take(req)
    /\ UNCHANGED <<config, phase, summary, session, dupefilter, yielded>>

(***************************************************************************)
(* parse.  A PageRecord is a dict; the model keeps the source's keys for   *)
(* the columns that depend on the crawl's state or are read again by       *)
(* spider_closed.  The purely page-local columns (headings, images,        *)
(* breadcrumbs, footer, schema markup, link ratio, url delimiter) and the  *)
(* constant blank ones are left out.                                       *)
(***************************************************************************)
YesNo(v) == IF Truthy(v) THEN "Yes" ELSE IF v = "False" THEN "No" ELSE ""

\* mutant: the cell reports what the http-variant probe found
HttpHttpsFromProbe(response, info) ==
    IF info.http_https = "True" THEN "HTTPS" ELSE "HTTP"

\* the 'http & https check' cell, built where the response and
\* self.site_info are both at hand
HttpHttpsCheck(response, info) ==
    IF StartsWithHttps(response.url) THEN "HTTPS" ELSE "HTTP"

Item(response, info) ==
    LET title == Strip(response.title)
        meta_desc == Strip(response.meta_desc)
    IN  ("Website URL" :> response.url)
        @@ ("Status" :> response.status)
        @@ ("Robots.txt" :> YesNo(info.robots_exists))
        @@ ("HTML Sitemap" :> YesNo(info.html_sitemap_exists))
        @@ ("XML Sitemap" :> YesNo(info.xml_sitemap_exists))
        @@ ("Custom 404 Page" :> YesNo(info.custom_404))
        @@ ("http & https check" :> HttpHttpsCheck(response, info))
        @@ ("www. & non www version check" :>
                IF Truthy(info.www_nonwww) THEN "Alternate root reachable" ELSE "")
        @@ ("Meta Title" :> title)
        @@ ("Duplicate Meta Title" :> "")
        @@ ("Meta Description" :> meta_desc)
        @@ ("Duplicate Meta Description" :> "")
        @@ ("Broken Links" :> <<>>)
        @@ ("Duplicate Content" :> "")
        @@ ("Broken Links Count" :> 0)
        @@ ("Missing Meta Title (1/0)" :> IF title = <<>> THEN 1 ELSE 0)
        @@ ("Missing Meta Description (1/0)" :> IF meta_desc = <<>> THEN 1 ELSE 0)
        @@ ("Duplicate Meta Title (1/0)" :> 0)
        @@ ("Duplicate Meta Description (1/0)" :> 0)
        @@ ("Duplicate Content (1/0)" :> 0)

\* mutant: d[k] = [v], which drops what the key held
SetDefaultOverwrite(d, k, v) ==
    IF k \in DOMAIN d THEN [d EXCEPT ![k] = <<v>>] ELSE d @@ (k :> <<v>>)

\* d.setdefault(k, []).append(v)
SetDefaultAppend(d, k, v) ==
    IF k \in DOMAIN d THEN [d EXCEPT ![k] = Append(@, v)] ELSE d @@ (k :> <<v>>)

\* title.strip() or "(no title)"
TitleKey(title) == OrElse(Strip(title), NoTitle)

\* meta_desc.strip() or "(no meta)"
MetaKey(meta_desc) == OrElse(Strip(meta_desc), NoMeta)

\* mutant: the hash is taken of an empty body text as well
BodyHashOfAnyText(response) == Sha1Hex(Strip(response.body_text))

\* body_hash: "" when the stripped body text is empty
BodyHash(response) ==
    IF Strip(response.body_text) # <<>> THEN Sha1Hex(Strip(response.body_text))
    ELSE <<>>

IsSitemap(response) ==
    EndsWithXml(response.url) /\ InWindow(response.urlsetAt, 7)

\* mutant: the host comparison is left out
InternalSetAnyHost(response, root) ==
    {UrlJoin(response.url, response.hrefs[i]) :
        i \in {j \in 1..Len(response.hrefs) : ~response.hrefs[j].empty}}

\* internal_set: the non-empty hrefs, resolved, whose host is the seed's
InternalSet(response, root) ==
    {link \in {UrlJoin(response.url, response.hrefs[i]) :
                 i \in {j \in 1..Len(response.hrefs) : ~response.hrefs[j].empty}} :
        link.netloc = root.netloc}

\* the link-check requests of one page
LinkChecks(response, root) ==
    {Request(link, "check_link", TRUE, "_link_errback", response.url, link) :
        link \in InternalSet(response, root)}

\* the discovery requests of one page
Discoveries(response, root) ==
    {Request(link, "parse", TRUE, "", NoUrl, NoUrl) :
        link \in InternalSet(response, root)}

RECURSIVE LocRequests(_)
LocRequests(locs) ==
    IF locs = <<>> THEN <<>>
    ELSE <<Request(Head(locs), "parse", FALSE, "", NoUrl, NoUrl)>>
         \o LocRequests(Tail(locs))

\* sitemap xml discovery: one request per <url><loc>, then return
ParseSitemap(req) ==
    /\ Resolving(req, "parse")
    /\ IsSitemap(Fetch(req.url))
    /\ LET reqs == LocRequests(Fetch(req.url).locs)
           st == EnqueueAll(reqs, allowed_domains,
                            [pending |-> Take(req), dupefilter |-> dupefilter])
       IN  /\ pending' = st.pending
           /\ dupefilter' = st.dupefilter
           /\ yielded' = yielded (+) SeqToBag(reqs)
    /\ UNCHANGED <<config, phase, summary, session>>

ParsePage(req) ==
    /\ Resolving(req, "parse")
    /\ ~IsSitemap(Fetch(req.url))
    /\ Len(results) < MaxPages
    /\ LET response == Fetch(req.url)
           body_hash == BodyHash(response)
           reqs == LinkChecks(response, site_root) \cup Discoveries(response, site_root)
       IN  /\ title_map' = SetDefaultAppend(title_map, TitleKey(Strip(response.title)),
                                            response.url)
           /\ meta_map' = SetDefaultAppend(meta_map, MetaKey(Strip(response.meta_desc)),
                                           response.url)
           /\ bodyhash_map' =
                IF body_hash # <<>>
                THEN SetDefaultAppend(bodyhash_map, body_hash, response.url)
                ELSE bodyhash_map
           /\ results' = Append(results, Item(response, site_info))
           /\ pending' = Take(req) (+) SetToBag(reqs)
           /\ yielded' = yielded (+) SetToBag(reqs)
    /\ UNCHANGED <<config, phase, summary, site_info, broken_links_map, dupefilter>>

Parse(req) == ParseSitemap(req) \/ ParsePage(req)

(***************************************************************************)
(* check_link and _link_errback.  The second component of a broken-link    *)
(* pair is a status code or the string "ERR".                              *)
(***************************************************************************)
Code(status) == [err |-> FALSE, code |-> status]
Err == [err |-> TRUE, code |-> 0]
Pair(target, status) == <<target, status>>

\* the pair check_link records for a response, <<>> when it records none
CheckLinkPair(req, response) ==
    IF response.status >= 400 THEN <<Pair(response.url, Code(response.status))>>
    ELSE <<>>

CheckLink(req) ==
    /\ Resolving(req, "check_link")
    /\ LET pair == CheckLinkPair(req, Fetch(req.url)) IN
        broken_links_map' =
            IF pair # <<>> THEN SetDefaultAppend(broken_links_map, req.parent, pair[1])
            ELSE broken_links_map
    /\ pending' = Take(req)
    /\ UNCHANGED <<config, phase, summary, site_info, results, title_map, meta_map,
                   bodyhash_map, dupefilter, yielded>>

\* request.meta.get('link_target') or request.url
LinkErrbackPair(req) ==
    Pair(IF req.link_target # NoUrl THEN req.link_target ELSE req.url, Err)

LinkErrback(req) ==
    /\ Failing(req, "_link_errback")
    /\ broken_links_map' =
            SetDefaultAppend(broken_links_map, req.parent, LinkErrbackPair(req))
    /\ pending' = Take(req)
    /\ UNCHANGED <<config, phase, summary, site_info, results, title_map, meta_map,
                   bodyhash_map, dupefilter, yielded>>

(***************************************************************************)
(* spider_closed                                                           *)
(***************************************************************************)
Range(seq) == {seq[i] : i \in 1..Len(seq)}

Min(a, b) == IF a <= b THEN a ELSE b

\* {k for k, urls in d.items() if len(urls) > 1 and k != sentinel}
Dupes(d, sentinel) == {k \in DOMAIN d : Len(d[k]) > 1 /\ k # sentinel}

\* {h for h, urls in self.bodyhash_map.items() if len(urls) > 1}
BodyDupeHashes(d) == {h \in DOMAIN d : Len(d[h]) > 1}

\* self.broken_links_map.get(url, [])
BrokenList(d, url) == IF url \in DOMAIN d THEN d[url] ELSE <<>>

\* mutant: the slice is forgotten
ShownUncapped(broken_list) == broken_list

\* broken_list[:10], one entry per rendered "target(status)"
Shown(broken_list) == SubSeq(broken_list, 1, Min(BrokenShown, Len(broken_list)))

\* mutant: the pass adds this run's count to the count the record holds
AggregatedAccumulating(r, tmap, mmap, bmap, broken) ==
    [r EXCEPT !["Broken Links Count"] = @ + Len(BrokenList(broken, r["Website URL"])),
              !["Broken Links"] = Shown(BrokenList(broken, r["Website URL"])),
              !["Duplicate Meta Title (1/0)"] =
                  IF OrElse(Strip(r["Meta Title"]), NoTitle) \in Dupes(tmap, NoTitle)
                  THEN 1 ELSE 0]

\* the body of the loop `for r in self.results`
Aggregated(r, tmap, mmap, bmap, broken) ==
    LET broken_list == BrokenList(broken, r["Website URL"])
        t == OrElse(Strip(r["Meta Title"]), NoTitle)
        md == OrElse(Strip(r["Meta Description"]), NoMeta)
        found_dup == \E h \in DOMAIN bmap :
                        /\ r["Website URL"] \in Range(bmap[h])
                        /\ h \in BodyDupeHashes(bmap)
        r1 == [r EXCEPT !["Broken Links Count"] = Len(broken_list),
                        !["Broken Links"] = Shown(broken_list)]
        r2 == IF t \in Dupes(tmap, NoTitle)
              THEN [r1 EXCEPT !["Duplicate Meta Title"] = "X",
                              !["Duplicate Meta Title (1/0)"] = 1]
              ELSE [r1 EXCEPT !["Duplicate Meta Title (1/0)"] = 0]
        r3 == IF md \in Dupes(mmap, NoMeta)
              THEN [r2 EXCEPT !["Duplicate Meta Description"] = "X",
                              !["Duplicate Meta Description (1/0)"] = 1]
              ELSE [r2 EXCEPT !["Duplicate Meta Description (1/0)"] = 0]
    IN  IF found_dup
        THEN [r3 EXCEPT !["Duplicate Content"] = "X",
                        !["Duplicate Content (1/0)"] = 1]
        ELSE [r3 EXCEPT !["Duplicate Content (1/0)"] = 0]

RECURSIVE SumOf(_, _)
SumOf(rows, key) ==
    IF rows = <<>> THEN 0 ELSE Head(rows)[key] + SumOf(Tail(rows), key)

\* the totals of the summary file
Summary(rows) ==
    [written |-> TRUE,
     pages |-> Len(rows),
     broken_links |-> SumOf(rows, "Broken Links Count"),
     missing_title |-> SumOf(rows, "Missing Meta Title (1/0)"),
     duplicate_title |-> SumOf(rows, "Duplicate Meta Title (1/0)"),
     duplicate_meta |-> SumOf(rows, "Duplicate Meta Description (1/0)"),
     duplicate_content |-> SumOf(rows, "Duplicate Content (1/0)")]

AggregatedAll(rows, tmap, mmap, bmap, broken) ==
    [i \in 1..Len(rows) |-> Aggregated(rows[i], tmap, mmap, bmap, broken)]

\* what spider_closed leaves pending: it yields nothing
ClosedPending(p) == p

\* the signal handler, run by the engine when it closes the idle spider
SpiderClosed ==
    /\ phase = "crawling"
    /\ EngineIdle
    /\ results' = AggregatedAll(results, title_map, meta_map, bodyhash_map,
                                broken_links_map)
    /\ summary' = Summary(results')
    /\ phase' = "closed"
    /\ pending' = ClosedPending(pending)
    /\ UNCHANGED <<config, site_info, title_map, meta_map, bodyhash_map,
                   broken_links_map, dupefilter, yielded>>

(***************************************************************************)
(* The crawl.                                                              *)
(***************************************************************************)
\* every request the model can hold
Requests == BagToSet(pending)

Next ==
    \/ Construct
    \/ StartRequests
    \/ \E req \in Requests : ParseRobots(req)
    \/ \E req \in Requests : ParseSitemapProbe(req)
    \/ \E req \in Requests : Parse404Probe(req)
    \/ \E req \in Requests : ParseHttpProbe(req)
    \/ \E req \in Requests : ParseWwwProbe(req)
    \/ \E req \in Requests : ErrbackProbe(req)
    \/ \E req \in Requests : FailureDropped(req)
    \/ \E req \in Requests : Parse(req)
    \/ \E req \in Requests : CheckLink(req)
    \/ \E req \in Requests : LinkErrback(req)
    \/ SpiderClosed

Spec == Init /\ [][Next]_vars

(***************************************************************************)
(* The aggregation pass alone, started where the engine has gone idle      *)
(* after crawling a dead-links site: every probe resolved before the seed  *)
(* page, then the seed page and its links in document order.               *)
(***************************************************************************)
DeadChoices == UNION {[1..n -> {"ERR", "404"}] : n \in 0..MaxBroken}

DeadScenario(dead) ==
    [args |-> Args(P("/"), NoUrl, NoFile), site |-> "deadlinks", dead |-> dead]

\* SiteInfo once every probe of the dead-links site was answered 404
IdleInfo ==
    LET robots == [SiteInfo0 EXCEPT
                      !.robots_exists = Bool(RobotsExists(NotFound(RobotsUrl(SecureRoot))))]
        maps == SitemapProbeInfo(SitemapProbeInfo(SitemapProbeInfo(robots,
                    NotFound(SitemapXmlUrl(SecureRoot))),
                    NotFound(SitemapIndexUrl(SecureRoot))),
                    NotFound(SitemapHtmlUrl(SecureRoot)))
    IN  [maps EXCEPT
            !.custom_404 = Custom404(NotFound(P("/.well-known/k3x9q0a7m2c5zt"))),
            !.http_https = Bool(StartsWithHttps(NotFound(RootUrl("http", Host)).url)),
            !.www_nonwww = Bool(NotFound(RootUrl("https", <<"www">> \o Host)).status = 200)]

\* the responses delivered to parse: the seed page, then each link answered 404
RECURSIVE DeadResponses(_, _)
DeadResponses(dead, i) ==
    IF i > Len(dead) THEN <<>>
    ELSE (IF dead[i] = "ERR" THEN <<>> ELSE <<NotFound(DeadUrl(i))>>)
         \o DeadResponses(dead, i + 1)

\* the records and duplicate indices after parse has taken the responses
RECURSIVE Recorded(_, _, _)
Recorded(responses, info, acc) ==
    IF responses = <<>> THEN acc
    ELSE LET response == Head(responses)
             body_hash == BodyHash(response)
         IN  Recorded(Tail(responses), info,
                [results |-> Append(acc.results, Item(response, info)),
                 title_map |-> SetDefaultAppend(acc.title_map,
                                  TitleKey(Strip(response.title)), response.url),
                 meta_map |-> SetDefaultAppend(acc.meta_map,
                                  MetaKey(Strip(response.meta_desc)), response.url),
                 bodyhash_map |->
                    IF body_hash # <<>>
                    THEN SetDefaultAppend(acc.bodyhash_map, body_hash, response.url)
                    ELSE acc.bodyhash_map])

\* the broken-link index after the link checks of the seed page resolved
RECURSIVE DeadBroken(_, _, _)
DeadBroken(dead, i, acc) ==
    IF i > Len(dead) THEN acc
    ELSE LET req == Request(DeadUrl(i), "check_link", TRUE, "_link_errback",
                            P("/"), DeadUrl(i))
             pair == IF dead[i] = "ERR" THEN LinkErrbackPair(req)
                     ELSE CheckLinkPair(req, NotFound(DeadUrl(i)))[1]
         IN  DeadBroken(dead, i + 1, SetDefaultAppend(acc, P("/"), pair))

InitAgg ==
    \E dead \in DeadChoices :
        LET seed == DeadLinksSite(dead)[P("/")]
            rec == Recorded(<<seed>> \o DeadResponses(dead, 1), IdleInfo,
                            [results |-> <<>>, title_map |-> EmptyDict,
                             meta_map |-> EmptyDict, bodyhash_map |-> EmptyDict])
        IN  /\ scenario = DeadScenario(dead)
            /\ phase = "crawling"
            /\ error = ""
            /\ start_urls = <<P("/")>>
            /\ site_root = SecureRoot
            /\ allowed_domains = <<Host>>
            /\ site_info = IdleInfo
            /\ results = rec.results
            /\ title_map = rec.title_map
            /\ meta_map = rec.meta_map
            /\ bodyhash_map = rec.bodyhash_map
            /\ broken_links_map = DeadBroken(dead, 1, EmptyDict)
            /\ pending = EmptyBag
            /\ dupefilter = {P("/")}
            /\ yielded = SeqToBag(StartRequestsOf(SecureRoot, <<P("/")>>,
                                                  "/.well-known/k3x9q0a7m2c5zt"))
                         (+) SetToBag(LinkChecks(seed, SecureRoot)
                                      \cup Discoveries(seed, SecureRoot))
            /\ summary = NoSummary

NextAgg == SpiderClosed

SpecAgg == InitAgg /\ [][NextAgg]_vars

\* resolution of every request is fair: the fetcher answers or times out
FairSpec == Spec /\ WF_vars(Next)

(***************************************************************************)
(* Properties.                                                             *)
(***************************************************************************)
Indices == 1..Len(results)

UrlOf(i) == results[i]["Website URL"]

\* every URL the site can make the spider request: the seeds, the internal
\* links of its pages and the entries of its sitemaps
SiteUrls ==
    Range(start_urls)
    \cup UNION {InternalSet(Pages(scenario)[u], site_root)
                \cup Range(Pages(scenario)[u].locs) :
                    u \in DOMAIN Pages(scenario)}

\* how many requests a crawl that fetches each URL of the site once for
\* discovery can yield at most: the probes and seeds, one discovery per URL,
\* and from each page one link check per URL
FetchBound ==
    7 + Len(start_urls) + Cardinality(SiteUrls)
      + Cardinality(SiteUrls) * Cardinality(SiteUrls)

\* C1: for a finite site the crawl schedules only a bounded number of
\* fetches (and so can drain and close): the number of requests yielded
\* never exceeds what the site's finitely many URLs account for.
C1_BoundedFetches == BagCardinality(yielded) <= FetchBound

\* discovery requests for url u that the engine accepted, so far
DiscoveriesAccepted(u) ==
    CopiesIn(Request(u, "parse", TRUE, "", NoUrl, NoUrl), yielded)
    + (IF u \in dupefilter THEN 1 ELSE 0)

\* C2: each URL is scheduled for a discovery fetch at most once, however
\* many pages link to it.
C2_DiscoveryOnce ==
    \A req \in BagToSet(yielded) :
        req.callback = "parse" => DiscoveriesAccepted(req.url) <= 1

\* C3: self.results holds at most one record per 'Website URL'.
C3_OneRecordPerUrl ==
    \A i, j \in Indices : UrlOf(i) = UrlOf(j) => i = j

\* the URLs of the pages recorded with normalized title t / description md
PagesTitled(t) == {UrlOf(i) : i \in {j \in Indices : TitleKey(results[j]["Meta Title"]) = t}}
PagesDescribed(md) ==
    {UrlOf(i) : i \in {j \in Indices : MetaKey(results[j]["Meta Description"]) = md}}

\* C4: after the Aggregator has run, a record's duplicate-title flag is set
\* iff its normalized title is not "(no title)" and is the normalized title
\* of two or more pages; likewise the duplicate-description flag with
\* "(no meta)".
C4_DuplicateFlagLaw ==
    phase = "closed" =>
        \A i \in Indices :
            LET t == TitleKey(results[i]["Meta Title"])
                md == MetaKey(results[i]["Meta Description"])
            IN  /\ results[i]["Duplicate Meta Title (1/0)"] = 1
                    <=> (t # NoTitle /\ Cardinality(PagesTitled(t)) >= 2)
                /\ results[i]["Duplicate Meta Description (1/0)"] = 1
                    <=> (md # NoMeta /\ Cardinality(PagesDescribed(md)) >= 2)

SeedKinds(args) ==
    (IF args.start_url # NoUrl THEN 1 ELSE 0)
    + (IF args.sitemap # NoUrl THEN 1 ELSE 0)
    + (IF args.urls_file.given THEN 1 ELSE 0)

C7_LinkValidationRecords ==
    [][\A req \in BagToSet(pending) :
        (req.callback = "check_link" /\ pending' = Take(req)) =>
            LET out == Fetch(req.url)
                T == req.link_target
                R == req.parent
            IN  /\ broken_links_map' =
                     IF out.fail
                     THEN SetDefaultAppend(broken_links_map, R, Pair(T, Err))
                     ELSE IF out.status >= 400
                     THEN SetDefaultAppend(broken_links_map, R, Pair(T, Code(out.status)))
                     ELSE broken_links_map
                /\ UNCHANGED <<config, phase, site_info, results, title_map,
                               meta_map, bodyhash_map, dupefilter, yielded, summary>>
      ]_vars

\* the robots.txt probe of this crawl is answered 404
RobotsAnswered404 ==
    /\ ~Fetch(RobotsUrl(site_root)).fail
    /\ Fetch(RobotsUrl(site_root)).status = 404

\* C9: when the robots.txt probe resolves with status 404, the finished
\* report reads "No" in the 'Robots.txt' column of every record.
C9_RobotsColumnNo ==
    (phase = "closed" /\ RobotsAnswered404) =>
        \A i \in Indices : results[i]["Robots.txt"] = "No"

\* C8: after the Aggregator has run, every record's 'Broken Links Count' is
\* the length of the BrokenLinkIndex entry of its URL (0 without an entry),
\* uncapped, and 'Broken Links' lists exactly the first min(10, count)
\* entries in index order.
C8_BrokenLinksRendered ==
    phase = "closed" =>
        \A i \in Indices :
            LET entry == IF UrlOf(i) \in DOMAIN broken_links_map
                         THEN broken_links_map[UrlOf(i)] ELSE <<>>
                shown == results[i]["Broken Links"]
            IN  /\ results[i]["Broken Links Count"] = Len(entry)
                /\ Len(shown) = (IF Len(entry) < 10 THEN Len(entry) ELSE 10)
                /\ \A k \in 1..Len(shown) : shown[k] = entry[k]

\* a closed crawl with a page of more than ten broken links, and one of none
C8_Witness ==
    /\ phase = "closed"
    /\ \E i \in Indices :
        /\ results[i]["Broken Links Count"] > 10
        /\ Len(results[i]["Broken Links"]) = 10
    /\ \E i \in Indices : results[i]["Broken Links Count"] = 0

\* the probes of this crawl that fail at network level
FailedProbes == {req \in BagToSet(yielded) :
                    req.callback \in ProbeCallbacks /\ Fetch(req.url).fail}

ProbesOf(callback) == {req \in BagToSet(yielded) : req.callback = callback}

\* the SiteInfo fields a probe callback writes
FieldsOf(callback) ==
    CASE callback = "_parse_robots" -> {"robots_exists"}
      [] callback = "_parse_sitemap_probe" -> {"xml_sitemap_exists", "html_sitemap_exists"}
      [] callback = "_parse_404_probe" -> {"custom_404"}
      [] callback = "_parse_http_probe" -> {"http_https"}
      [] callback = "_parse_www_probe" -> {"www_nonwww"}

\* C10: a failed probe fetch changes nothing but the set of outstanding
\* requests (no SiteInfo field, no PageRecord, no index, not the phase); a
\* field all of whose probes fail stays unknown; and on the sites whose
\* crawl is finite the crawl still drains and the Aggregator runs.
C10_ProbeFailureSwallowed ==
    /\ [][\A req \in BagToSet(pending) :
            (req.callback \in ProbeCallbacks /\ Fetch(req.url).fail
             /\ pending' = Take(req))
            => UNCHANGED <<config, phase, session, dupefilter, yielded, summary>>
         ]_vars
    /\ [](\A callback \in ProbeCallbacks :
            (ProbesOf(callback) # {} /\ ProbesOf(callback) \subseteq FailedProbes)
            => \A f \in FieldsOf(callback) : site_info[f] = "None")
    /\ ((phase = "crawling" /\ FailedProbes # {} /\ scenario.site # "cycle")
            ~> phase = "closed")

\* a crawl all of whose probes failed has fetched pages, recorded broken
\* links and closed
C10_Witness ==
    /\ phase = "closed"
    /\ Cardinality(FailedProbes) = 7
    /\ site_info = SiteInfo0
    /\ Len(results) >= 3
    /\ broken_links_map # EmptyDict
    /\ summary.written

\* C11: running the Aggregator a second time on the frozen session leaves
\* every record (duplicate flags and marks, broken-link count and text) and
\* all site totals as the first run left them.
C11_AggregatorIdempotent ==
    phase = "closed" =>
        LET again == AggregatedAll(results, title_map, meta_map, bodyhash_map,
                                   broken_links_map)
        IN  /\ again = results
            /\ Summary(again) = summary

\* the first run flagged duplicates, left other records unflagged and
\* rendered a capped broken-link list
C11_Witness ==
    /\ phase = "closed"
    /\ \E i \in Indices : results[i]["Duplicate Meta Title (1/0)"] = 1
    /\ \E i \in Indices : results[i]["Duplicate Meta Title (1/0)"] = 0
    /\ \E i \in Indices : results[i]["Duplicate Content (1/0)"] = 1
    /\ \E i \in Indices : results[i]["Broken Links Count"] > Len(results[i]["Broken Links"])
    /\ summary.broken_links > 0
    /\ summary.duplicate_title > 0

\* C12: every record's 'http & https check' is "HTTPS" exactly when the
\* page's own fetched URL has the https scheme, whatever the http-variant
\* probe has answered and whether or not it has resolved.
C12_SchemeColumnOwnUrl ==
    \A i \in Indices :
        results[i]["http & https check"] =
            (IF UrlOf(i).scheme = "https" THEN "HTTPS" ELSE "HTTP")

\* an https page was recorded after the http-variant probe had answered
\* without redirecting to https
C12_Witness ==
    /\ site_info.http_https = "False"
    /\ \E i \in Indices :
        /\ results[i]["http & https check"] = "HTTPS"
        /\ UrlOf(i).scheme = "https"

\* the step hands the response of request req to parse: req leaves the
\* outstanding requests and what parse yields may join them
ParseTakes(req) ==
    /\ phase = "crawling"
    /\ req.callback = "parse"
    /\ ~Fetch(req.url).fail
    /\ Take(req) \sqsubseteq pending'
    /\ pending' \sqsubseteq (Take(req) (+) (yielded' (-) yielded))

\* how many of the requests in bag b call callback for url u
Calls(b, callback, u) ==
    BagCardinality([req \in {q \in BagToSet(b) : q.callback = callback /\ q.url = u}
                        |-> CopiesIn(req, b)])

\* how many entries of locs name url u
Occurrences(locs, u) == Cardinality({i \in 1..Len(locs) : locs[i] = u})

\* C13: a discovery response whose body carries the urlset marker within
\* its first 2000 characters creates no record, inserts nothing into a
\* duplicate index, yields one discovery request per <url><loc> entry and
\* no link check; any other discovery response creates exactly one record.
C13_SitemapBodyExpanded ==
    [][\A req \in BagToSet(pending) :
        ParseTakes(req) =>
            LET response == Fetch(req.url)
                new == yielded' (-) yielded
            IN  IF InWindow(response.urlsetAt, 7)
                THEN /\ UNCHANGED <<results, title_map, meta_map, bodyhash_map>>
                     /\ \A q \in BagToSet(new) :
                            q.callback = "parse" /\ q.url \in Range(response.locs)
                     /\ \A u \in Range(response.locs) :
                            Calls(new, "parse", u) = Occurrences(response.locs, u)
                ELSE Len(results') = Len(results) + 1
      ]_vars

\* C14: every request one processing of a page P yields from P's anchors
\* targets the seed host, and discovery and link validation are paired:
\* per URL at most one discovery request and exactly as many link checks,
\* each link check carrying referrer P and its own URL as target.
C14_PairedStreams ==
    [][\A req \in BagToSet(pending) :
        (ParseTakes(req) /\ ~IsSitemap(Fetch(req.url))) =>
            LET new == yielded' (-) yielded IN
            \A q \in BagToSet(new) :
                /\ q.url.netloc = site_root.netloc
                /\ q.callback \in {"parse", "check_link"}
                /\ Calls(new, "parse", q.url) = 1
                /\ Calls(new, "check_link", q.url) = 1
                /\ q.callback = "check_link" =>
                        (q.parent = Fetch(req.url).url /\ q.link_target = q.url)
      ]_vars

\* a page with anchors to the same internal URL in two spellings, to
\* another internal URL, to another host and with an empty href has been
\* processed
C14_Witness ==
    /\ scenario.site = "diamond"
    /\ Len(results) >= 1
    /\ \E q \in BagToSet(yielded) :
            q.callback = "check_link" /\ q.url = P("/c") /\ q.parent = P("/")
    /\ \E q \in BagToSet(yielded) :
            q.callback = "parse" /\ q.url = P("/b") /\ q.dont_filter

\* the step hands the response of probe request req to its callback
ProbeTakes(req, callback) ==
    /\ phase = "crawling"
    /\ req.callback = callback
    /\ ~Fetch(req.url).fail
    /\ pending' = Take(req)

\* C15: xml_sitemap_exists becomes true only on a sitemap probe answered 200
\* with the urlset marker in the first 2000 characters of the body; a 200
\* answer that looks like HTML and has no marker sets html_sitemap_exists
\* and leaves xml_sitemap_exists alone, whichever candidate it is; neither
\* field is ever false.
C15_SitemapProbeFields ==
    /\ [][(site_info'.xml_sitemap_exists # site_info.xml_sitemap_exists) =>
            /\ site_info'.xml_sitemap_exists = "True"
            /\ \E req \in BagToSet(pending) :
                /\ ProbeTakes(req, "_parse_sitemap_probe")
                /\ Fetch(req.url).status = 200
                /\ InWindow(Fetch(req.url).urlsetAt, 7)
         ]_vars
    /\ [][\A req \in BagToSet(pending) :
            (/\ ProbeTakes(req, "_parse_sitemap_probe")
             /\ Fetch(req.url).status = 200
             /\ InWindow(Fetch(req.url).htmlAt, 5)
             /\ ~InWindow(Fetch(req.url).urlsetAt, 7))
            => /\ site_info'.html_sitemap_exists = "True"
               /\ site_info'.xml_sitemap_exists = site_info.xml_sitemap_exists
         ]_vars
    /\ [](/\ site_info.xml_sitemap_exists \in {"None", "True"}
          /\ site_info.html_sitemap_exists \in {"None", "True"})

\* the probe requests start_requests has yielded
ProbesYielded == {q \in BagToSet(yielded) : q.callback \in ProbeCallbacks}

\* the probes start_requests is to issue for the seed's root
ProbeUrls(root) ==
    {RobotsUrl(root), SitemapXmlUrl(root), SitemapIndexUrl(root), SitemapHtmlUrl(root),
     RootUrl(root.scheme, AltNetloc(root.netloc))}
    \cup {RandUrl(root, randpath) : randpath \in RandPaths}
    \cup (IF root.scheme = "https" THEN {RootUrl("http", root.netloc)} ELSE {})

\* each probe is issued exactly once
ProbesIssuedOnce ==
    phase \in {"crawling", "closed"} =>
        /\ {q.url : q \in ProbesYielded} = ProbeUrls(site_root)
        /\ \A q \in ProbesYielded : CopiesIn(q, yielded) = 1
        /\ \A q1, q2 \in ProbesYielded : q1.url = q2.url => q1 = q2

\* the site_info keys the callback of probe request req assigns
WrittenBy(req) ==
    IF req.callback = "_parse_sitemap_probe" THEN SitemapProbeWrites(Fetch(req.url))
    ELSE FieldsOf(req.callback)

\* a field that has left unknown keeps its value
ValueKept ==
    \A f \in DOMAIN site_info :
        site_info[f] # "None" => site_info'[f] = site_info[f]

\* C16 (as the specification states it): each probe request is issued
\* exactly once and each SiteInfo field is written at most once: a probe
\* callback assigns a field only while it is unknown, and a field that has
\* left unknown never changes.
C16_FieldsWrittenOnce ==
    /\ []ProbesIssuedOnce
    /\ [][ValueKept]_vars
    /\ [][\A req \in BagToSet(pending) : \A callback \in ProbeCallbacks :
            ProbeTakes(req, callback) =>
                \A f \in WrittenBy(req) : site_info[f] = "None"]_vars

\* C16 (amended): each probe request is issued exactly once; a field that
\* has left unknown never changes its value; the robots, custom-404,
\* http/https and www fields are assigned at most once, while the two
\* sitemap fields may be assigned True again by another of the three
\* candidate probes.
C16_FieldValuesStable ==
    /\ []ProbesIssuedOnce
    /\ [][ValueKept]_vars
    /\ [][\A req \in BagToSet(pending) :
            \A callback \in ProbeCallbacks \ {"_parse_sitemap_probe"} :
                ProbeTakes(req, callback) =>
                    \A f \in WrittenBy(req) : site_info[f] = "None"]_vars
    /\ [][\A req \in BagToSet(pending) :
            ProbeTakes(req, "_parse_sitemap_probe") =>
                \A f \in WrittenBy(req) : site_info'[f] = "True"]_vars

\* every probe has resolved; two sitemap candidates were sitemaps, so
\* xml_sitemap_exists was assigned twice; the other fields hold answers
C16_Witness ==
    /\ scenario.site = "feed"
    /\ phase = "crawling"
    /\ \A q \in BagToSet(pending) : q.callback \notin ProbeCallbacks
    /\ site_info.xml_sitemap_exists = "True"
    /\ site_info.robots_exists = "False"
    /\ site_info.custom_404 = "True"

\* index d grows into e: every key stays and keeps its list as a prefix
GrowsInto(d, e) ==
    /\ DOMAIN d \subseteq DOMAIN e
    /\ \A k \in DOMAIN d :
        /\ Len(d[k]) <= Len(e[k])
        /\ SubSeq(e[k], 1, Len(d[k])) = d[k]

\* the columns spider_closed assigns
AggregatorColumns ==
    {"Broken Links Count", "Broken Links",
     "Duplicate Meta Title", "Duplicate Meta Title (1/0)",
     "Duplicate Meta Description", "Duplicate Meta Description (1/0)",
     "Duplicate Content", "Duplicate Content (1/0)"}

\* C17: the three duplicate indices and the broken-link index only grow
\* (keys stay, lists are extended at the end, one pair at most per
\* link-validation step), and the Aggregator pass leaves the four indices,
\* SiteInfo and the number, order and remaining columns of the records
\* unchanged.
C17_IndicesGrowAggregatorFrames ==
    /\ [][/\ GrowsInto(title_map, title_map')
          /\ GrowsInto(meta_map, meta_map')
          /\ GrowsInto(bodyhash_map, bodyhash_map')
          /\ GrowsInto(broken_links_map, broken_links_map')
          /\ \A k \in DOMAIN broken_links_map' :
                Len(broken_links_map'[k]) <=
                    (IF k \in DOMAIN broken_links_map
                     THEN Len(broken_links_map[k]) ELSE 0) + 1
         ]_vars
    /\ [][(phase = "crawling" /\ phase' = "closed") =>
            /\ UNCHANGED <<title_map, meta_map, bodyhash_map, broken_links_map,
                           site_info>>
            /\ Len(results') = Len(results)
            /\ \A i \in Indices :
                /\ DOMAIN results'[i] = DOMAIN results[i]
                /\ \A k \in DOMAIN results[i] \ AggregatorColumns :
                        results'[i][k] = results[i][k]
         ]_vars

\* a closed crawl whose broken-link list was extended twice and whose
\* records the Aggregator has filled in
C17_Witness ==
    /\ phase = "closed"
    /\ Len(results) >= 2
    /\ \E k \in DOMAIN broken_links_map : Len(broken_links_map[k]) >= 2
    /\ \E i \in Indices : results[i]["Broken Links Count"] >= 2
    /\ Cardinality(DOMAIN title_map) >= 2

RECURSIVE PairsIn(_, _)
\* the number of pairs index d holds under the keys ks
PairsIn(d, ks) ==
    IF ks = {} THEN 0
    ELSE LET k == CHOOSE x \in ks : TRUE
         IN  Len(d[k]) + PairsIn(d, ks \ {k})

\* C18: after the Aggregator has run, the site-wide total of broken links
\* equals the number of pairs in the broken-link index, every referrer key
\* being the URL of exactly one record.
C18_BrokenTotalMatchesIndex ==
    phase = "closed" =>
        /\ summary.broken_links = PairsIn(broken_links_map, DOMAIN broken_links_map)
        /\ \A k \in DOMAIN broken_links_map :
                Cardinality({i \in Indices : UrlOf(i) = k}) = 1

\* the responses parse may have been handed so far
Parsed == {Fetch(q.url) : q \in {r \in BagToSet(yielded) :
                                    r.callback = "parse" /\ ~Fetch(r.url).fail}}

\* C19: between callbacks the records and the duplicate indices agree: the
\* number of records is the total membership of the title index and of
\* the description index; each record's URL is listed under its normalized
\* title and description (or the sentinel); and a URL is listed in the
\* content index only if a record with that URL and a non-empty body text
\* exists.
C19_RecordsAgreeWithIndices ==
    /\ Len(results) = PairsIn(title_map, DOMAIN title_map)
    /\ Len(results) = PairsIn(meta_map, DOMAIN meta_map)
    /\ \A i \in Indices :
        LET t == IF results[i]["Meta Title"] = <<>> THEN NoTitle
                 ELSE results[i]["Meta Title"]
            md == IF results[i]["Meta Description"] = <<>> THEN NoMeta
                  ELSE results[i]["Meta Description"]
        IN  /\ t \in DOMAIN title_map /\ UrlOf(i) \in Range(title_map[t])
            /\ md \in DOMAIN meta_map /\ UrlOf(i) \in Range(meta_map[md])
    /\ \A h \in DOMAIN bodyhash_map : \A u \in Range(bodyhash_map[h]) :
        /\ \E i \in Indices : UrlOf(i) = u
        /\ \E response \in Parsed :
                response.url = u /\ Strip(response.body_text) # <<>>

\* pages with a title, without a description and without body text have
\* been recorded, two of them sharing their body text
C19_Witness ==
    /\ Len(results) >= 3
    /\ NoMeta \in DOMAIN meta_map
    /\ \E i \in Indices : results[i]["Meta Description"] = <<>>
    /\ \E h \in DOMAIN bodyhash_map : Len(bodyhash_map[h]) >= 2
    /\ PairsIn(bodyhash_map, DOMAIN bodyhash_map) < Len(results)
    /\ pending # EmptyBag

====
